---------------------------- MODULE Spec2Model ----------------------------
(***************************************************************************)
(* Afforestation impact calculator (src/script.js).                        *)
(*                                                                         *)
(* The file holds two variants of the page script: the local variant       *)
(* (lines 1-294), which computes the carbon model in the browser after a   *)
(* 100 ms timer, and the remote variant (lines 295-473), which posts the   *)
(* inputs to an HTTP endpoint.  Both are modelled here.                    *)
(*                                                                         *)
(* JavaScript numbers are IEEE-754 doubles.  TLC has 32-bit integers only, *)
(* so a Number is modelled as a decimal floating-point value with an       *)
(* eight-digit mantissa, [s, m, e] standing for s * m * 10^e, every        *)
(* operation rounding toward zero.  Math.exp is computed from tables of    *)
(* e^n and e^(j/10) and a five-term series.                                *)
(***************************************************************************)
EXTENDS Integers, Sequences, FiniteSets, TLC

(***************************************************************************)
(* Number arithmetic                                                       *)
(***************************************************************************)
Number == [s : {-1, 1}, m : Nat, e : Int]

Pow10Table == <<1, 10, 100, 1000, 10000, 100000, 1000000, 10000000,
                100000000, 1000000000>>
Pow10(k) == Pow10Table[k + 1]

\* Mantissas are 0 or lie in [MantMin, MantMax).
MantMin == Pow10(7)
MantMax == Pow10(8)
Limb == Pow10(4)

Zero == [s |-> 1, m |-> 0, e |-> 0]

\* The number of decimal digits of a natural n >= 1
NumDigits[n \in Nat] ==
    IF n < 10 THEN 1 ELSE IF n < 100 THEN 2 ELSE IF n < 1000 THEN 3
    ELSE IF n < 10000 THEN 4 ELSE IF n < 100000 THEN 5
    ELSE IF n < 1000000 THEN 6 ELSE IF n < 10000000 THEN 7
    ELSE IF n < 100000000 THEN 8 ELSE IF n < 1000000000 THEN 9 ELSE 10

\* The Number sgn * n * 10^e, for a natural n
Norm[sgn \in {-1, 1}, n \in Nat, e \in Int] ==
    IF n = 0 THEN Zero
    ELSE IF NumDigits[n] <= 8
    THEN [s |-> sgn, m |-> n * Pow10(8 - NumDigits[n]), e |-> e - (8 - NumDigits[n])]
    ELSE [s |-> sgn, m |-> n \div Pow10(NumDigits[n] - 8), e |-> e + (NumDigits[n] - 8)]

\* A decimal literal n * 10^e and an integer as Numbers
Dec(n, e) == Norm[1, n, e]
FromInt[i \in Int] == IF i < 0 THEN Norm[-1, -i, 0] ELSE Norm[1, i, 0]

One == Dec(1, 0)
Half == Dec(5, -1)
Ten == FromInt[10]
Thousand == FromInt[1000]

FNeg[a \in Number] == IF a.m = 0 THEN a ELSE [a EXCEPT !.s = -a.s]
FAbs[a \in Number] == [a EXCEPT !.s = 1]

\* The leading eight or nine digits of the product of two mantissas or of two
\* fixed-point values: a * b \div 10^8
MulHigh[a \in Nat, b \in Nat] ==
    (a \div Limb) * (b \div Limb)
    + ((a \div Limb) * (b % Limb) + (a % Limb) * (b \div Limb)
       + ((a % Limb) * (b % Limb)) \div Limb) \div Limb

\* The digit after them: (a * b \div 10^7) % 10
MulNext[a \in Nat, b \in Nat] ==
    (((a \div Limb) * (b % Limb) + (a % Limb) * (b \div Limb)
      + ((a % Limb) * (b % Limb)) \div Limb) % Limb) \div 1000

\* a * b
FMul[a \in Number, b \in Number] ==
    IF a.m = 0 \/ b.m = 0 THEN Zero
    ELSE IF MulHigh[a.m, b.m] >= MantMin
    THEN [s |-> a.s * b.s, m |-> MulHigh[a.m, b.m], e |-> a.e + b.e + 8]
    ELSE [s |-> a.s * b.s, m |-> MulHigh[a.m, b.m] * 10 + MulNext[a.m, b.m],
          e |-> a.e + b.e + 7]

\* The first eight digits of the quotient n / d, for d <= n < 10 * d, by long
\* division
LongDiv[n \in Nat, d \in Nat] ==
    LET r1 == n % d
        r2 == (r1 * 10) % d
        r3 == (r2 * 10) % d
        r4 == (r3 * 10) % d
        r5 == (r4 * 10) % d
        r6 == (r5 * 10) % d
        r7 == (r6 * 10) % d
    IN  (n \div d) * 10000000 + ((r1 * 10) \div d) * 1000000
        + ((r2 * 10) \div d) * 100000 + ((r3 * 10) \div d) * 10000
        + ((r4 * 10) \div d) * 1000 + ((r5 * 10) \div d) * 100
        + ((r6 * 10) \div d) * 10 + (r7 * 10) \div d

\* a / b, b nonzero
FDiv[a \in Number, b \in Number] ==
    IF a.m = 0 THEN Zero
    ELSE IF a.m >= b.m
    THEN [s |-> a.s * b.s, m |-> LongDiv[a.m, b.m], e |-> a.e - b.e - 7]
    ELSE [s |-> a.s * b.s, m |-> LongDiv[a.m * 10, b.m], e |-> a.e - b.e - 8]

\* |a| < |b|
MagLt[a \in Number, b \in Number] ==
    IF a.m = 0 THEN b.m # 0
    ELSE IF b.m = 0 THEN FALSE
    ELSE a.e < b.e \/ (a.e = b.e /\ a.m < b.m)

\* a < b and a <= b
FLt[a \in Number, b \in Number] ==
    IF a.m = 0 /\ b.m = 0 THEN FALSE
    ELSE IF a.s # b.s THEN a.s < b.s
    ELSE IF a.s = 1 THEN MagLt[a, b] ELSE MagLt[b, a]
FLe(a, b) == ~FLt[b, a]

\* The mantissa of b at the exponent e >= b.e
Align(b, e) == IF e - b.e > 8 THEN 0 ELSE b.m \div Pow10(e - b.e)

\* a + b and a - b
FAdd[a \in Number, b \in Number] ==
    IF a.m = 0 THEN b
    ELSE IF b.m = 0 THEN a
    ELSE IF a.s = b.s
    THEN IF MagLt[a, b] THEN Norm[a.s, b.m + Align(a, b.e), b.e]
         ELSE Norm[a.s, a.m + Align(b, a.e), a.e]
    ELSE IF MagLt[a, b] THEN Norm[b.s, b.m - Align(a, b.e), b.e]
    ELSE Norm[a.s, a.m - Align(b, a.e), a.e]
FSub[a \in Number, b \in Number] == FAdd[a, FNeg[b]]

\* Math.floor, as an integer
MathFloor[a \in Number] ==
    IF a.m = 0 THEN 0
    ELSE IF a.e >= 0 THEN a.s * a.m * Pow10(a.e)
    ELSE IF a.e < -8 THEN (IF a.s = 1 THEN 0 ELSE -1)
    ELSE IF a.s = 1 \/ a.m % Pow10(-a.e) = 0 THEN a.s * (a.m \div Pow10(-a.e))
    ELSE -(a.m \div Pow10(-a.e)) - 1

\* Math.round: the nearest integer, halves toward +Infinity
MathRound[a \in Number] == MathFloor[FAdd[a, Half]]

MathMin[a \in Number, b \in Number] == IF FLt[b, a] THEN b ELSE a
MathMax[a \in Number, b \in Number] == IF FLt[a, b] THEN b ELSE a

(***************************************************************************)
(* Math.exp, table-driven: for |x| = n + j/10 + g with n a natural         *)
(* number, j a digit and 0 <= g < 1/10,                                     *)
(*     e^|x| = e^n * e^(j/10) * (1 + g + g^2/2 + ... + g^5/120)            *)
(* and e^-|x| is its reciprocal.  The tables hold e^n for n = 0 .. 20 and  *)
(* e^(j/10) in units of 10^-8, both rounded toward zero.                   *)
(***************************************************************************)
EPowTable ==
    <<Dec(1, 0), Dec(27182818, -7), Dec(73890560, -7), Dec(20085536, -6),
      Dec(54598150, -6), Dec(14841315, -5), Dec(40342879, -5), Dec(10966331, -4),
      Dec(29809579, -4), Dec(81030839, -4), Dec(22026465, -3), Dec(59874141, -3),
      Dec(16275479, -2), Dec(44241339, -2), Dec(12026042, -1), Dec(32690173, -1),
      Dec(88861105, -1), Dec(24154952, 0), Dec(65659969, 0), Dec(17848230, 1),
      Dec(48516519, 1)>>

ExpTenthTable ==
    <<100000000, 110517091, 122140275, 134985880, 149182469, 164872127,
      182211880, 201375270, 222554092, 245960311>>

\* One step of the series, in units of 10^-8: 1 + g * acc / k
ExpStep[g \in Nat, k \in Nat, acc \in Nat] == MantMax + MulHigh[g, acc] \div k

\* e^g in units of 10^-8, for g < 1/10 in units of 10^-8
ExpSeries[g \in Nat] ==
    ExpStep[g, 1, ExpStep[g, 2, ExpStep[g, 3, ExpStep[g, 4, ExpStep[g, 5, MantMax]]]]]

\* e^f as a Number, for 0 <= f < 1 in units of 10^-8
ExpFraction[f \in Nat] ==
    Norm[1, MulHigh[ExpTenthTable[f \div (MantMax \div 10) + 1],
                    ExpSeries[f % (MantMax \div 10)]], -8]

\* e^a for a >= 0
ExpPositive[a \in Number] ==
    FMul[EPowTable[MathFloor[a] + 1],
         ExpFraction[MathFloor[FMul[FSub[a, FromInt[MathFloor[a]]], FromInt[MantMax]]]]]

MathExp[x \in Number] ==
    IF x.s = 1 THEN ExpPositive[x] ELSE FDiv[One, ExpPositive[FAbs[x]]]

(***************************************************************************)
(* Species parameters and the carbon model                                 *)
(***************************************************************************)
treeSpecies ==
    [teak |-> [name |-> "Teak", maxAge |-> 50, maxBiomass |-> FromInt[800],
               growthRate |-> Dec(25, -2), woodDensity |-> Dec(65, -2),
               carbonFraction |-> Dec(47, -2)],
     pine |-> [name |-> "Pine", maxAge |-> 40, maxBiomass |-> FromInt[600],
               growthRate |-> Dec(30, -2), woodDensity |-> Dec(45, -2),
               carbonFraction |-> Dec(50, -2)],
     oak  |-> [name |-> "Oak", maxAge |-> 60, maxBiomass |-> FromInt[900],
               growthRate |-> Dec(20, -2), woodDensity |-> Dec(72, -2),
               carbonFraction |-> Dec(48, -2)],
     eucalyptus |->
              [name |-> "Eucalyptus", maxAge |-> 30, maxBiomass |-> FromInt[500],
               growthRate |-> Dec(35, -2), woodDensity |-> Dec(55, -2),
               carbonFraction |-> Dec(49, -2)]]

CO2_TO_CARBON_RATIO == Dec(367, -2)

\* Initial biomass (kg) of a sapling
B0 == Dec(1, -1)

\* The exponent with the sign of r kept: the curve then falls with age
GrowthExponentUnsigned(r, age) == FMul[r, FromInt[age]]

\* The exponent of the logistic curve: -r * age
GrowthExponent(r, age) == FMul[FNeg[r], FromInt[age]]

calculateBiomass(age, speciesData) ==
    LET K  == speciesData.maxBiomass
        r  == speciesData.growthRate
        A  == FDiv[FSub[K, B0], B0]
        b1 == FDiv[K, FAdd[One, FMul[A, MathExp[GrowthExponent(r, age)]]]]
        b2 == MathMin[b1, K]
        b3 == FMul[b2, speciesData.woodDensity]
    IN  MathMax[b3, Zero]

\* Math.round(v * 10) / 10
Round1(v) == FDiv[FromInt[MathRound[FMul[v, Ten]]], Ten]

\* results.push(record)
Push(results, record) == Append(results, record)

\* final_co2 truncated instead of rounded: Math.floor(totalCO2)
FinalCo2Floor(totalCO2) == MathFloor[totalCO2]

\* final_co2: Math.round(totalCO2)
FinalCo2(totalCO2) == MathRound[totalCO2]

\* The running total with the year's amount taken off: totalCO2 -= totalCo2ForYear
SubtractYear(totalCO2, totalCo2ForYear) == FSub[totalCO2, totalCo2ForYear]

\* totalCO2 += totalCo2ForYear
AddYear(totalCO2, totalCo2ForYear) == FAdd[totalCO2, totalCo2ForYear]

\* One iteration of the loop, from the loop's state st = [results, totalCO2]
LoopBody(st, year, speciesData, numTrees) ==
    LET biomass == calculateBiomass(year, speciesData)
        carbonContent == FMul[biomass, speciesData.carbonFraction]
        co2PerTree == FMul[carbonContent, CO2_TO_CARBON_RATIO]
        totalCo2ForYear == FDiv[FMul[co2PerTree, FromInt[numTrees]], Thousand]
        totalCO2 == AddYear(st.totalCO2, totalCo2ForYear)
    IN  [results |-> Push(st.results,
                          [year |-> year,
                           biomass_per_tree |-> Round1(biomass),
                           co2_per_tree |-> Round1(co2PerTree),
                           total_co2 |-> Round1(totalCO2)]),
         totalCO2 |-> totalCO2]

\* The last year of a loop that stops one short: year < years
LastYearExclusive(years) == years - 1

\* The last year the loop runs for: year <= years
LastYear(years) == years

\* The iterations for year = from .. to, in order, entered with the state st0:
\* those of the first half of the range, then those of the second.  The
\* state a half is entered with is a value, computed once.
RECURSIVE SequestrationLoop(_, _, _, _, _)
SequestrationLoop(st0, from, to, speciesData, numTrees) ==
    CHOOSE out \in
        {IF from > to THEN st
         ELSE IF from = to THEN LoopBody(st, from, speciesData, numTrees)
         ELSE SequestrationLoop(
                  SequestrationLoop(st, from, (from + to) \div 2, speciesData, numTrees),
                  (from + to) \div 2 + 1, to, speciesData, numTrees) : st \in {st0}} : TRUE

\* speciesData is undefined for a key treeSpecies does not hold; reading
\* speciesData.maxBiomass in the first iteration then throws a TypeError.
calculateCarbonSequestration(species, numTrees, years) ==
    IF species \notin DOMAIN treeSpecies
    THEN [threw |-> TRUE]
    ELSE CHOOSE data \in
        {[threw |-> FALSE,
          success |-> TRUE,
          species |-> treeSpecies[species].name,
          num_trees |-> numTrees,
          years |-> years,
          final_co2 |-> FinalCo2(loop.totalCO2),
          results |-> loop.results] :
             loop \in {SequestrationLoop([results |-> <<>>, totalCO2 |-> Zero], 1,
                                         LastYear(years), treeSpecies[species],
                                         numTrees)}} : TRUE

(***************************************************************************)
(* Form fields and parseInt                                                *)
(*                                                                         *)
(* The text of an input element is a sequence of characters.  parseInt     *)
(* reads an optional sign and the leading run of decimal digits and gives  *)
(* NaN when there is none; its result is [nan, v].                         *)
(***************************************************************************)
IsDigit(c) == c \in {"0", "1", "2", "3", "4", "5", "6", "7", "8", "9"}

DigitValue(c) ==
    CASE c = "0" -> 0 [] c = "1" -> 1 [] c = "2" -> 2 [] c = "3" -> 3
      [] c = "4" -> 4 [] c = "5" -> 5 [] c = "6" -> 6 [] c = "7" -> 7
      [] c = "8" -> 8 [] c = "9" -> 9

RECURSIVE ParseDigits(_, _, _)
ParseDigits(chars, i, acc) ==
    IF i > Len(chars) \/ ~IsDigit(chars[i]) THEN acc
    ELSE ParseDigits(chars, i + 1, acc * 10 + DigitValue(chars[i]))

parseInt(chars) ==
    LET signed == chars # <<>> /\ chars[1] \in {"-", "+"}
        start  == IF signed THEN 2 ELSE 1
        mag    == ParseDigits(chars, start, 0)
    IN  IF start > Len(chars) \/ ~IsDigit(chars[start])
        THEN [nan |-> TRUE, v |-> 0]
        ELSE [nan |-> FALSE, v |-> IF chars[1] = "-" THEN -mag ELSE mag]

\* !n for a Number n: NaN and 0 are falsy
Falsy(n) == n.nan \/ n.v = 0

(***************************************************************************)
(* State                                                                   *)
(***************************************************************************)
VARIABLES
    species,        \* value of the #species select
    numTrees,       \* text of the #numTrees input
    years,          \* text of the #years input
    loadingHidden,  \* #loading carries the class "hidden"
    resultsHidden,  \* #results carries the class "hidden"
    errorHidden,    \* #error carries the class "hidden"
    errorText,      \* text of the paragraph in #error
    displayed,      \* the data last rendered by displayResults (total, years,
                    \* chart and table; co2Chart is non-null iff it is set)
    timers,         \* local variant: pending setTimeout callbacks, in firing
                    \* order, each with the inputs its closure captured
    inflight,       \* remote variant: requests whose fetch has not settled
    call,           \* carbon model alone: the function applied and its arguments
    ret             \* carbon model alone: the value returned

fields == <<species, numTrees, years>>
ui == <<loadingHidden, resultsHidden, errorHidden, errorText, displayed>>
vars == <<species, numTrees, years, loadingHidden, resultsHidden, errorHidden,
          errorText, displayed, timers, inflight, call, ret>>

NoData == [none |-> TRUE]
NoValue == [none |-> TRUE]
NoCall == [fn |-> "none"]

MaxTrees == 100000
MaxYears == 50

\* Most callbacks pending, and most requests in flight, at one time
MaxPending == 2
MaxInflight == 2

FillAllMsg == "Please fill in all fields"
TreeCountMsg == "Number of trees must be between 1 and 100,000"
DurationMsg == "Project duration must be between 1 and 50 years"
FailedMsg == "Failed to calculate impact. Please try again."
TryLaterMsg == "Failed to calculate impact. Please try again later."

(***************************************************************************)
(* UI helpers                                                              *)
(***************************************************************************)
showLoading == loadingHidden' = FALSE
hideLoading == loadingHidden' = TRUE
showResults == resultsHidden' = FALSE
hideResults == resultsHidden' = TRUE
showError(message) == errorText' = message /\ errorHidden' = FALSE
hideError == errorHidden' = TRUE /\ UNCHANGED errorText

displayResults(data) == displayed' = data /\ showResults

(***************************************************************************)
(* Local variant                                                           *)
(***************************************************************************)
\* The inputs calculateImpact reads from the form
Inputs == [species |-> species, numTrees |-> parseInt(numTrees),
           years |-> parseInt(years)]

MissingField(in) == in.species = "" \/ Falsy(in.numTrees) \/ Falsy(in.years)
TreeCountOutOfRange(in) == in.numTrees.v < 1 \/ in.numTrees.v > MaxTrees
DurationOutOfRange(in) == in.years.v < 1 \/ in.years.v > MaxYears

\* The closure passed to setTimeout
Closure(in) == [species |-> in.species, numTrees |-> in.numTrees.v,
                years |-> in.years.v]

calculateImpact ==
    LET in == Inputs
    IN  /\ UNCHANGED <<fields, inflight, call, ret>>
        /\ IF MissingField(in)
           THEN /\ showError(FillAllMsg)
                /\ UNCHANGED <<loadingHidden, resultsHidden, displayed, timers>>
           ELSE IF TreeCountOutOfRange(in)
           THEN /\ showError(TreeCountMsg)
                /\ UNCHANGED <<loadingHidden, resultsHidden, displayed, timers>>
           ELSE IF DurationOutOfRange(in)
           THEN /\ showError(DurationMsg)
                /\ UNCHANGED <<loadingHidden, resultsHidden, displayed, timers>>
           ELSE /\ Len(timers) < MaxPending
                /\ showLoading
                /\ hideResults
                /\ hideError
                /\ timers' = Append(timers, Closure(in))
                /\ UNCHANGED displayed

\* The callback of the oldest pending timer runs: try / catch / finally
TimerFires ==
    /\ timers # <<>>
    /\ \E c \in {Head(timers)} :
       \E results \in {calculateCarbonSequestration(c.species, c.numTrees, c.years)} :
           IF results.threw
           THEN /\ showError(FailedMsg)
                /\ UNCHANGED <<resultsHidden, displayed>>
           ELSE /\ displayResults(results)
                /\ UNCHANGED <<errorHidden, errorText>>
    /\ hideLoading
    /\ timers' = Tail(timers)
    /\ UNCHANGED <<fields, inflight, call, ret>>

\* The listeners registered on DOMContentLoaded: an edit hides the results
ChangeSpecies(dom) ==
    /\ \E v \in dom.species \ {species} : species' = v
    /\ hideResults
    /\ UNCHANGED <<numTrees, years, loadingHidden, errorHidden, errorText,
                   displayed, timers, inflight, call, ret>>

InputNumTrees(dom) ==
    /\ \E v \in dom.numTrees \ {numTrees} : numTrees' = v
    /\ hideResults
    /\ UNCHANGED <<species, years, loadingHidden, errorHidden, errorText,
                   displayed, timers, inflight, call, ret>>

InputYears(dom) ==
    /\ \E v \in dom.years \ {years} : years' = v
    /\ hideResults
    /\ UNCHANGED <<species, numTrees, loadingHidden, errorHidden, errorText,
                   displayed, timers, inflight, call, ret>>

\* The page as loaded: every section hidden, the fields holding any input
InitPage(dom) ==
    /\ species \in dom.species
    /\ numTrees \in dom.numTrees
    /\ years \in dom.years
    /\ loadingHidden = TRUE
    /\ resultsHidden = TRUE
    /\ errorHidden = TRUE
    /\ errorText = ""
    /\ displayed = NoData
    /\ timers = <<>>
    /\ inflight = <<>>
    /\ call = NoCall
    /\ ret = NoValue

NextLocal(dom) ==
    \/ calculateImpact
    \/ TimerFires
    \/ ChangeSpecies(dom)
    \/ InputNumTrees(dom)
    \/ InputYears(dom)

\* Inputs for the races between clicks, edits and timers, and for species
RaceInputs ==
    [species |-> {"", "teak", "baobab"},
     numTrees |-> {<<"1">>, <<"2">>},
     years |-> {<<"1">>, <<"2">>}]

\* Inputs at the boundaries of the tree-count range
TreeInputs ==
    [species |-> {"", "teak"},
     numTrees |-> {<<>>, <<"-", "1">>, <<"0">>, <<"1">>,
                   <<"1", "0", "0", "0", "0", "0">>,
                   <<"1", "0", "0", "0", "0", "1">>},
     years |-> {<<>>, <<"1">>}]

\* Inputs at the boundaries of the duration range
YearInputs ==
    [species |-> {"", "teak"},
     numTrees |-> {<<>>, <<"1">>},
     years |-> {<<>>, <<"-", "1">>, <<"0">>, <<"1">>, <<"5", "0">>, <<"5", "1">>}]

Init == InitPage(RaceInputs)
Next == NextLocal(RaceInputs)
Spec == Init /\ [][Next]_vars

InitTrees == InitPage(TreeInputs)
NextTrees == NextLocal(TreeInputs)
SpecTrees == InitTrees /\ [][NextTrees]_vars

InitYears == InitPage(YearInputs)
NextYears == NextLocal(YearInputs)
SpecYears == InitYears /\ [][NextYears]_vars

(***************************************************************************)
(* Remote variant: calculateImpact posts the request and awaits the reply  *)
(***************************************************************************)
ServerErrorMsg == "Internal server error"

NoResponse == [kind |-> "pending", data |-> NoData]

\* fetch rejects, the status is not 2xx, or the body is not JSON
TransportFailures ==
    {[kind |-> k, data |-> NoData] : k \in {"rejected", "http_error", "malformed"}}

\* The bodies the API answers a request with: the result, or success: false
\* with the validation error of the request, or with no error text
ServerBodies(req) ==
    IF req.num_trees < 1 \/ req.num_trees > MaxTrees
    THEN {[success |-> FALSE, error |-> TreeCountMsg]}
    ELSE IF req.years < 1 \/ req.years > MaxYears
    THEN {[success |-> FALSE, error |-> DurationMsg]}
    ELSE {[success |-> FALSE, error |-> ""],
          [success |-> FALSE, error |-> ServerErrorMsg],
          [success |-> TRUE, species |-> req.species, num_trees |-> req.num_trees,
           years |-> req.years, final_co2 |-> 0, results |-> <<>>]}

Responses(req) ==
    TransportFailures \cup {[kind |-> "json", data |-> d] : d \in ServerBodies(req)}

\* The body of the POST request
RequestBody(in) == [species |-> in.species, num_trees |-> in.numTrees.v,
                    years |-> in.years.v]

\* calculateImpact up to its first await
calculateImpactRemote ==
    LET in == Inputs
    IN  /\ UNCHANGED <<fields, timers, call, ret>>
        /\ IF MissingField(in)
           THEN /\ showError(FillAllMsg)
                /\ UNCHANGED <<loadingHidden, resultsHidden, displayed, inflight>>
           ELSE /\ Len(inflight) < MaxInflight
                /\ showLoading
                /\ hideResults
                /\ hideError
                /\ inflight' = Append(inflight, [request |-> RequestBody(in),
                                                 response |-> NoResponse])
                /\ UNCHANGED displayed

\* The network settles the i-th pending fetch
ServerReplies(i) ==
    /\ inflight[i].response = NoResponse
    /\ \E r \in Responses(inflight[i].request) :
           inflight' = [inflight EXCEPT ![i].response = r]
    /\ UNCHANGED <<fields, ui, timers, call, ret>>

\* The i-th request without its entry
Settled(i) == SubSeq(inflight, 1, i - 1) \o SubSeq(inflight, i + 1, Len(inflight))

\* calculateImpact resumes with the settled fetch: the rest of try, catch, finally
Resume(i) ==
    /\ inflight[i].response # NoResponse
    /\ \E r \in {inflight[i].response} :
           IF r.kind = "json" /\ r.data.success
           THEN /\ displayResults(r.data)
                /\ UNCHANGED <<errorHidden, errorText>>
           ELSE /\ showError(TryLaterMsg)
                /\ UNCHANGED <<resultsHidden, displayed>>
    /\ hideLoading
    /\ inflight' = Settled(i)
    /\ UNCHANGED <<fields, timers, call, ret>>

\* The user edits a field; the remote variant registers no listener
EditForm(dom) ==
    /\ \/ \E v \in dom.species \ {species} : species' = v /\ UNCHANGED <<numTrees, years>>
       \/ \E v \in dom.numTrees \ {numTrees} : numTrees' = v /\ UNCHANGED <<species, years>>
       \/ \E v \in dom.years \ {years} : years' = v /\ UNCHANGED <<species, numTrees>>
    /\ UNCHANGED <<ui, timers, inflight, call, ret>>

\* Inputs the remote page sends on to the API
RemoteInputs ==
    [species |-> {"", "teak"},
     numTrees |-> {<<"1">>, <<"1", "0", "0", "0", "0", "1">>},
     years |-> {<<"1">>, <<"5", "1">>}]

InitRemote == InitPage(RemoteInputs)
NextRemote ==
    \/ calculateImpactRemote
    \/ \E i \in 1 .. Len(inflight) : ServerReplies(i)
    \/ \E i \in 1 .. Len(inflight) : Resume(i)
    \/ EditForm(RemoteInputs)
SpecRemote == InitRemote /\ [][NextRemote]_vars

(***************************************************************************)
(* The carbon model alone: each function applied to inputs in its range    *)
(***************************************************************************)
\* Tree counts tried: the SampleTrees smallest and the SampleTrees largest
SampleTrees == 2
TreeCounts == (1 .. SampleTrees) \cup ((MaxTrees - SampleTrees + 1) .. MaxTrees)

InitModel ==
    /\ species = ""
    /\ numTrees = <<>>
    /\ years = <<>>
    /\ loadingHidden = TRUE
    /\ resultsHidden = TRUE
    /\ errorHidden = TRUE
    /\ errorText = ""
    /\ displayed = NoData
    /\ timers = <<>>
    /\ inflight = <<>>
    /\ ret = NoValue
    /\ \/ call \in [fn : {"calculateBiomass"}, species : DOMAIN treeSpecies,
                    age : 1 .. MaxYears]
       \/ call \in [fn : {"calculateCarbonSequestration"},
                    species : DOMAIN treeSpecies, numTrees : TreeCounts,
                    years : 1 .. MaxYears]

ApplyBiomass ==
    /\ call.fn = "calculateBiomass"
    /\ ret = NoValue
    /\ ret' = calculateBiomass(call.age, treeSpecies[call.species])
    /\ UNCHANGED <<fields, ui, timers, inflight, call>>

ApplySequestration ==
    /\ call.fn = "calculateCarbonSequestration"
    /\ ret = NoValue
    /\ ret' = calculateCarbonSequestration(call.species, call.numTrees, call.years)
    /\ UNCHANGED <<fields, ui, timers, inflight, call>>

NextModel == ApplyBiomass \/ ApplySequestration
SpecModel == InitModel /\ [][NextModel]_vars

(***************************************************************************)
(* Properties of the carbon model (SpecModel)                              *)
(***************************************************************************)
Aggregated == call.fn = "calculateCarbonSequestration" /\ ret # NoValue
BiomassComputed == call.fn = "calculateBiomass" /\ ret # NoValue
LastRecord == ret.results[Len(ret.results)]
BiomassCeiling(sp) == FMul[treeSpecies[sp].maxBiomass, treeSpecies[sp].woodDensity]

\* C1: for every supported species, tree count in [1, 100000] and duration
\* in [1, 50], calculateCarbonSequestration returns exactly `years` records
\* whose year fields are 1, 2, ..., years in that order.
C1_OneRecordPerYear ==
    Aggregated =>
        /\ Len(ret.results) = call.years
        /\ \A i \in 1 .. call.years : ret.results[i].year = i

\* C1 witness: a 50-year aggregation for 100000 trees has returned its 50 records.
C1_FiftyRecords ==
    /\ Aggregated
    /\ call.years = MaxYears
    /\ call.numTrees = MaxTrees
    /\ Len(ret.results) = MaxYears
    /\ LastRecord.year = MaxYears

\* C2: in the result of calculateCarbonSequestration the emitted cumulative
\* total_co2 never decreases from one year record to the next.
C2_TotalNonDecreasing ==
    Aggregated =>
        \A i \in 1 .. Len(ret.results) - 1 :
            FLe(ret.results[i].total_co2, ret.results[i + 1].total_co2)

\* C2 witness: an aggregation over several years has returned, and its
\* emitted total has grown strictly from the first record to the last.
C2_TotalGrew ==
    /\ Aggregated
    /\ Len(ret.results) >= 3
    /\ FLt[ret.results[1].total_co2, ret.results[2].total_co2]
    /\ FLt[ret.results[2].total_co2, LastRecord.total_co2]

\* C6: for every supported species and every age in [1, 50],
\* calculateBiomass(age) <= calculateBiomass(age + 1) and calculateBiomass(age)
\* lies in [0, maxBiomass * woodDensity]; biomass_per_tree of every emitted
\* year record lies in the same interval.
C6_BiomassMonotoneAndBounded ==
    /\ BiomassComputed =>
           /\ FLe(ret, calculateBiomass(call.age + 1, treeSpecies[call.species]))
           /\ FLe(Zero, ret)
           /\ FLe(ret, BiomassCeiling(call.species))
    /\ Aggregated =>
           \A i \in 1 .. Len(ret.results) :
               /\ FLe(Zero, ret.results[i].biomass_per_tree)
               /\ FLe(ret.results[i].biomass_per_tree, BiomassCeiling(call.species))

\* C6 witness: calculateBiomass has returned for age 50, with a positive
\* value strictly below both the value at age 51 and the ceiling.
C6_StillGrowingAtFifty ==
    /\ BiomassComputed
    /\ call.age = MaxYears
    /\ FLt[Zero, ret]
    /\ FLt[ret, calculateBiomass(call.age + 1, treeSpecies[call.species])]
    /\ FLt[ret, BiomassCeiling(call.species)]

\* C7: for every valid request, final_co2 and the total_co2 of the last year
\* record differ by at most 0.5 in absolute value.
C7_FinalWithinHalf ==
    Aggregated =>
        FLe(FAbs[FSub[FromInt[ret.final_co2], LastRecord.total_co2]], Half)

\* C7 witness: an aggregation has returned whose two totals differ, by at
\* least 0.4.
C7_TotalsDiffer ==
    /\ Aggregated
    /\ FLe(Dec(4, -1), FAbs[FSub[FromInt[ret.final_co2], LastRecord.total_co2]])

(***************************************************************************)
(* Properties of the local page (Spec, SpecTrees, SpecYears)               *)
(***************************************************************************)
ErrorShown(message) == ~errorHidden' /\ errorText' = message
Scheduled == timers' = Append(timers, Closure(Inputs))
InRange(n, lo, hi) == ~n.nan /\ n.v >= lo /\ n.v <= hi
Reads(n, values) == ~n.nan /\ n.v \in values

\* C3: with species and duration valid, calculateImpact schedules a
\* computation for a tree count of 1 and of 100000, and rejects a tree count
\* of 0 and of 100001 with the tree-count range message, scheduling nothing.
C3_TreeCountBoundaries ==
    [][(/\ calculateImpact
        /\ species \in DOMAIN treeSpecies
        /\ InRange(parseInt(years), 1, MaxYears)) =>
           /\ Reads(parseInt(numTrees), {1, MaxTrees}) => Scheduled
           /\ Reads(parseInt(numTrees), {0, MaxTrees + 1}) =>
                  ErrorShown(TreeCountMsg) /\ timers' = timers]_vars

\* C4: with species and tree count valid, calculateImpact schedules a
\* computation for a duration of 1 and of 50, and rejects a duration of 0 and
\* of 51 with the duration range message, scheduling nothing.
C4_DurationBoundaries ==
    [][(/\ calculateImpact
        /\ species \in DOMAIN treeSpecies
        /\ InRange(parseInt(numTrees), 1, MaxTrees)) =>
           /\ Reads(parseInt(years), {1, MaxYears}) => Scheduled
           /\ Reads(parseInt(years), {0, MaxYears + 1}) =>
                  ErrorShown(DurationMsg) /\ timers' = timers]_vars

\* C5: a request whose species is not a key of treeSpecies, with tree count
\* and duration in range, is rejected with an error by calculateImpact, which
\* schedules nothing, and calculateCarbonSequestration is never entered for
\* such a species.
C5_UnknownSpeciesRejected ==
    [][/\ (/\ calculateImpact
           /\ species \notin DOMAIN treeSpecies
           /\ InRange(parseInt(numTrees), 1, MaxTrees)
           /\ InRange(parseInt(years), 1, MaxYears)) =>
              ~errorHidden' /\ timers' = timers
       /\ TimerFires => Head(timers).species \in DOMAIN treeSpecies]_vars

\* C9: under any interleaving of clicks, edits and timer callbacks, whenever
\* the results section is visible the displayed result was computed from the
\* species, tree count and duration the fields hold now.
C9_VisibleResultIsCurrent ==
    ~resultsHidden =>
        /\ displayed # NoData
        /\ species \in DOMAIN treeSpecies
        /\ displayed.species = treeSpecies[species].name
        /\ displayed.num_trees = parseInt(numTrees).v
        /\ displayed.years = parseInt(years).v

\* C10: the loading indicator is visible exactly when at least one accepted
\* request still has its deferred computation pending.
C10_LoadingIffPending == (~loadingHidden) <=> (timers # <<>>)

(***************************************************************************)
(* Properties of the remote page (SpecRemote)                              *)
(***************************************************************************)
ValidationErrors == {TreeCountMsg, DurationMsg}
ValidationFailure(r) ==
    r.kind = "json" /\ ~r.data.success /\ r.data.error \in ValidationErrors

\* C8: in the remote variant a transport failure (fetch rejection, non-2xx
\* status, malformed body) is shown with the try-again-later message, and
\* that message is never shown for an input-validation failure, whether it is
\* found by the page or reported by the server with success: false.
C8_TransportDistinctFromValidation ==
    [][/\ (calculateImpactRemote /\ MissingField(Inputs)) => ~ErrorShown(TryLaterMsg)
       /\ \A i \in 1 .. Len(inflight) :
              Resume(i) =>
                  /\ inflight[i].response \in TransportFailures =>
                         ErrorShown(TryLaterMsg)
                  /\ ValidationFailure(inflight[i].response) =>
                         ~ErrorShown(TryLaterMsg)]_vars

=============================================================================
